---- MODULE Spec2Model ----
(***************************************************************************)
(* ULinkZenoh (src/src/lib.rs): the uProtocol transport binding on Zenoh.  *)
(* State: the three mutex-guarded maps, the atomic handle counter, the     *)
(* mesh (declared subscribers and queryables, puts, queries, replies), the *)
(* API calls in progress (one record per calling task, one atomic step per *)
(* lock acquisition, atomic operation or awaited mesh operation) and the   *)
(* mesh-driven callbacks in progress.                                      *)
(* Strings are sequences of one-character strings.                         *)
(***************************************************************************)
EXTENDS Integers, Sequences, FiniteSets, TLC

\* ------------------------------------------------------------------ bounds
NCalls == 2
NMsgs == 2
NRegCalls == 3
NSeqCalls == 3
NIoCalls == 2
NIoMsgs == 1
NRpcCalls == 2
NRpcMsgs == 2
NListenCalls == 1
NListenMsgs == 2
NInvokeCalls == 2
NInvokeMsgs == 1
NKeyCalls == 2
NTableCalls == 3
NTableMsgs == 1
NLockCalls == 2
NLockMsgs == 1
NSendCalls == 2
NSendMsgs == 1

Max(S) == CHOOSE n \in S : \A k \in S : k <= n
Tasks == 1..Max({NCalls, NRegCalls, NSeqCalls, NIoCalls, NRpcCalls, NListenCalls, NInvokeCalls,
                 NKeyCalls, NTableCalls, NLockCalls, NSendCalls})
Msgs == 1..Max({NMsgs, NIoMsgs, NRpcMsgs, NListenMsgs, NInvokeMsgs, NTableMsgs,
                NLockMsgs, NSendMsgs})

\* ------------------------------------------------------------- strings
RECURSIVE Hex(_)
RECURSIVE Dec(_)
RECURSIVE ReplaceChar(_, _, _)
RECURSIVE ReplaceSlashSlash(_)
RECURSIVE StripTrailingSlashes(_)

HexDigit(d) == <<"0","1","2","3","4","5","6","7","8","9","A","B","C","D","E","F">>[d + 1]

\* format!("{:X}", n)
Hex(n) == IF n < 16 THEN <<HexDigit(n)>> ELSE Hex(n \div 16) \o <<HexDigit(n % 16)>>

\* format!("{}", n) for an unsigned integer
Dec(n) == IF n < 10 THEN <<HexDigit(n)>> ELSE Dec(n \div 10) \o <<HexDigit(n % 10)>>

\* str::replace(c, to) for a single character c
ReplaceChar(s, c, to) ==
  IF s = <<>> THEN <<>>
  ELSE (IF Head(s) = c THEN to ELSE <<Head(s)>>) \o ReplaceChar(Tail(s), c, to)

\* str::replace("//", "\\/"): leftmost, non-overlapping matches
ReplaceSlashSlash(s) ==
  IF Len(s) < 2 THEN s
  ELSE IF s[1] = "/" /\ s[2] = "/"
       THEN <<"\\", "/">> \o ReplaceSlashSlash(SubSeq(s, 3, Len(s)))
       ELSE <<s[1]>> \o ReplaceSlashSlash(Tail(s))

StripTrailingSlashes(s) ==
  IF s # <<>> /\ s[Len(s)] = "/" THEN StripTrailingSlashes(SubSeq(s, 1, Len(s) - 1)) ELSE s

\* ------------------------------------------------------------- addresses
\* UUri: authority (absent, present without remote, or present with a remote
\* name), entity name and major version, resource name, instance, message.
\* An absent optional field is the empty sequence.
NoAuthority == [kind |-> "none", name |-> <<>>]
NoRemote == [kind |-> "noremote", name |-> <<>>]
RemoteName(n) == [kind |-> "name", name |-> n]

UUri(auth, ename, ver, rname, inst, msg) ==
  [authority |-> auth, entity |-> ename, version |-> ver,
   resource |-> rname, instance |-> inst, message |-> msg]

UriIsEmpty(uri) ==
  uri.authority.kind = "none" /\ uri.entity = <<>> /\ uri.resource = <<>>

\* UriValidator::validate: an empty address or one without an entity name fails
UriValidate(uri) == ~UriIsEmpty(uri) /\ uri.entity # <<>>

\* LongUriSerializer::serialize: [//authority]/entity[/version][/resource[.instance][#message]]
SerializeOk(uri) == ~UriIsEmpty(uri)

Serialize(uri) ==
  StripTrailingSlashes(
    (IF uri.authority.kind # "none" THEN <<"/", "/">> \o uri.authority.name ELSE <<>>)
    \o <<"/">> \o uri.entity
    \o (IF uri.version # <<>> THEN <<"/">> \o uri.version ELSE <<>>)
    \o (IF uri.resource # <<>>
        THEN <<"/">> \o uri.resource
             \o (IF uri.instance # <<>> THEN <<".">> \o uri.instance ELSE <<>>)
             \o (IF uri.message # <<>> THEN <<"#">> \o uri.message ELSE <<>>)
        ELSE <<>>))

StripLeadingSlash(s) == IF s # <<>> /\ Head(s) = "/" THEN Tail(s) ELSE s

Escape(s) ==
  ReplaceSlashSlash(
    ReplaceChar(ReplaceChar(ReplaceChar(ReplaceChar(s,
      "*", <<"\\", "8">>), "$", <<"\\", "4">>), "?", <<"\\", "0">>), "#", <<"\\", "3">>))

\* an override that fires for every address with a remote name
IsRemoteName(uri) == uri.authority.kind = "name"

IsStarRemote(uri) == uri.authority.kind = "name" /\ uri.authority.name = <<"*">>

\* the key left as the escaped address, nothing put in front of it
KeyPrefixNone == <<>>

KeyPrefix == <<"u", "p", "/">>


\* to_zenoh_key_string, for an address that serializes
to_zenoh_key_string(uri) ==
  KeyPrefix \o (IF IsStarRemote(uri) THEN <<"*", "*">>
                ELSE Escape(StripLeadingSlash(Serialize(uri))))

\* the two halves printed without the separator
uuid_to_string_unseparated(uuid) == Dec(uuid[1]) \o Dec(uuid[2])

\* uuid_to_string: "<msb>:<lsb>"
uuid_to_string(uuid) == Dec(uuid[1]) \o <<":">> \o Dec(uuid[2])

\* the listener string: format!("{}_{:X}", zenoh_key, counter)
HandleString(key, n) == key \o <<"_">> \o Hex(n)

\* ------------------------------------------------------------- maps
\* HashMap::insert, HashMap::remove, HashMap::contains_key on a map kept as a
\* function
\* an insert that keeps the value already stored under the key
MapInsertIfAbsent(m, k, v) == [x \in DOMAIN m \cup {k} |-> IF x \in DOMAIN m THEN m[x] ELSE v]

\* HashMap::insert(k, v): the value stored under k is replaced
MapInsert(m, k, v) == [x \in DOMAIN m \cup {k} |-> IF x = k THEN v ELSE m[x]]
\* a remove that leaves the entry in the map
MapRemoveKept(m, k) == m

MapRemove(m, k) == [x \in DOMAIN m \ {k} |-> m[x]]
MapHas(m, k) == k \in DOMAIN m
\* a get that falls back on some stored value when the key is absent
LookupAny(m, k) ==
  IF k \in DOMAIN m THEN m[k]
  ELSE IF DOMAIN m # {} THEN m[CHOOSE x \in DOMAIN m : TRUE] ELSE 0

\* HashMap::get(k).cloned(): the value, or 0 for None
Lookup(m, k) == IF k \in DOMAIN m THEN m[k] ELSE 0
EmptyMap == [x \in {} |-> 0]

\* the value handed back is kept alive instead of dropped
StoredLeaked(m, k) == {}

\* the value stored under k, as a set (empty when absent): what insert or
\* remove hands back and drops
Stored(m, k) == IF k \in DOMAIN m THEN {m[k]} ELSE {}

\* a load in place of the fetch_add: the counter is read and not advanced
FetchAddLost(c) == c

\* AtomicU64::fetch_add(1, SeqCst): the value the counter holds afterwards
FetchAdd(c) == c + 1

\* ------------------------------------------------------------- values
UriA == UUri(NoAuthority, <<"a">>, <<"1">>, <<"r">>, <<>>, <<>>)
UriEmpty == UUri(NoAuthority, <<>>, <<>>, <<>>, <<>>, <<>>)
Uris == {UriA, UriEmpty}

\* the address of the unit test: body.access/1/door.front_left#Door
UriDoor == UUri(NoAuthority, <<"b","o","d","y",".","a","c","c","e","s","s">>, <<"1">>,
                <<"d","o","o","r">>, <<"f","r","o","n","t","_","l","e","f","t">>,
                <<"D","o","o","r">>)
\* addresses with the remote name "*", with another remote name, with an
\* authority without remote, and with every escaped character in their names
UriStar == UUri(RemoteName(<<"*">>), <<"a","$">>, <<"1">>, <<"r","?">>, <<>>, <<"M">>)
UriHost == UUri(RemoteName(<<"h">>), <<"a">>, <<"1">>, <<"r">>, <<>>, <<"M">>)
UriNoRemote == UUri(NoRemote, <<"a">>, <<"1">>, <<"r">>, <<>>, <<>>)
UriEscaped == UUri(NoAuthority, <<"*">>, <<"1">>, <<"r","$","?">>, <<>>, <<>>)
KeyUris == {UriDoor, UriStar, UriHost, UriNoRemote, UriEscaped}

Ok(v) == [ok |-> TRUE, code |-> "OK", msg |-> "", value |-> v]
Err(c, m) == [ok |-> FALSE, code |-> c, msg |-> m, value |-> <<>>]
NoResult == [ok |-> FALSE, code |-> "", msg |-> "", value |-> <<>>]

\* Uuid {msb, lsb}; None is an absent optional
None == <<>>
R1 == <<1, 11>>
R2 == <<11, 1>>
Uuids == {R1, R2}

\* UPayload.data: Some(Data::Value), Some(Data::Reference) or None
PayloadData == {"value", "reference", "none"}
\* the check of the payload variant left out
IsValueAny(data) == TRUE

IsValue(data) == data = "value"

\* UAttributes: the message type, the optional reqid, and whether the other
\* fields pass the structural checks of the SDK's validators
\* UMessageType::try_from(attributes.r#type): the three types, unspecified,
\* and "unknown" for an integer that is no message type (such attributes
\* are never well-formed)
MessageTypes == {"publish", "request", "response", "unspecified", "unknown"}
Attributes ==
  {a \in [type : MessageTypes, reqid : Uuids \cup {None}, wellformed : BOOLEAN] :
     a.type = "unknown" => ~a.wellformed}

\* Validators::Request.validator().validate
ValidateRequest(a) == a.type = "request" /\ a.wellformed

\* what a sample or query carries on the wire: the attachment and its two
\* entries, the value with its encoding suffix, the reqid of the attributes
GoodWire(r) == [attachment |-> TRUE, uattributes |-> "ok", src_uuri |-> "ok",
                value |-> "ok", reqid |-> r]
SampleWires ==
  {GoodWire(None),
   [GoodWire(None) EXCEPT !.attachment = FALSE],
   [GoodWire(None) EXCEPT !.uattributes = "missing"],
   [GoodWire(None) EXCEPT !.uattributes = "garbled"],
   [GoodWire(None) EXCEPT !.src_uuri = "missing"],
   [GoodWire(None) EXCEPT !.src_uuri = "garbled"],
   [GoodWire(None) EXCEPT !.value = "bad_suffix"]}
QueryWires ==
  {GoodWire(r) : r \in Uuids \cup {None}} \cup
  {[GoodWire(R1) EXCEPT !.attachment = FALSE],
   [GoodWire(R1) EXCEPT !.uattributes = "missing"],
   [GoodWire(R1) EXCEPT !.uattributes = "garbled"],
   [GoodWire(R1) EXCEPT !.value = "bad_suffix"],
   [GoodWire(R1) EXCEPT !.value = "none", !.src_uuri = "missing"]}

\* the subscriber callback's decoding, lines 620-662
SampleOutcome(w) ==
  IF ~w.attachment THEN Err("Internal", "Unable to get attachment")
  ELSE IF w.uattributes = "missing" THEN Err("Internal", "Unable to get uattributes")
  ELSE IF w.uattributes = "garbled" THEN Err("Internal", "Unable to decode attribute")
  ELSE IF w.src_uuri = "missing" THEN Err("Internal", "Unable to get source_uuri")
  ELSE IF w.src_uuri = "garbled" THEN Err("Internal", "Unable to decode source uuri")
  ELSE IF w.value # "ok" THEN Err("Internal", "Unable to get payload encoding")
  ELSE Ok(<<>>)

\* a decoding that takes the value without parsing its encoding suffix
QueryOutcomeAnySuffix(w) ==
  IF ~w.attachment THEN Err("Internal", "Unable to get attachment")
  ELSE IF w.uattributes = "missing" THEN Err("Internal", "Unable to get uattributes")
  ELSE IF w.uattributes = "garbled" THEN Err("Internal", "Unable to decode attribute")
  ELSE IF w.reqid = None THEN Err("Internal", "The request is without reqid in UAttributes")
  ELSE Ok(<<>>)

\* the queryable callback's decoding, lines 444-506
QueryOutcome(w) ==
  IF ~w.attachment THEN Err("Internal", "Unable to get attachment")
  ELSE IF w.uattributes = "missing" THEN Err("Internal", "Unable to get uattributes")
  ELSE IF w.uattributes = "garbled" THEN Err("Internal", "Unable to decode attribute")
  ELSE IF w.value = "bad_suffix" THEN Err("Internal", "Unable to get payload encoding")
  ELSE IF w.reqid = None THEN Err("Internal", "The request is without reqid in UAttributes")
  ELSE Ok(<<>>)

\* KeyExpr::new: a key expression has no empty chunk
KeyExprValid(k) ==
  /\ k # <<>> /\ k[1] # "/" /\ k[Len(k)] # "/"
  /\ \A i \in 1..(Len(k) - 1) : ~(k[i] = "/" /\ k[i + 1] = "/")

\* every handle string a registration can have produced so far
Handles(n) == {HandleString(to_zenoh_key_string(u), i) :
                 u \in {v \in Uris : UriValidate(v)}, i \in 0..(n - 1)}

VARIABLES
  subscriber_map,     \* handle string -> declared subscriber
  queryable_map,      \* handle string -> declared queryable
  query_map,          \* request id string -> query
  callback_counter,   \* the handle allocator
  mesh_subscribers,   \* the subscribers declared on the mesh
  mesh_queryables,    \* the queryables declared on the mesh
  task,               \* the API call each task is in
  msg                 \* the samples and queries the mesh carries, and their callbacks

vars == <<subscriber_map, queryable_map, query_map, callback_counter,
          mesh_subscribers, mesh_queryables, task, msg>>

\* A declared subscriber or queryable is named after the task whose
\* registration declared it.
\* A call keeps of its arguments what its later steps read: the address of
\* a registration or invocation, the listener string, the reqid of a request.
\* io lists the mesh operations the call has issued, attachment the entries
\* of the attachment its put, get or reply carried.
\* lines 203-206 and 360-363: the attachment of a put and of a get
PutAttachment == {"uattributes", "src_uuri"}
\* lines 258-260: the attachment of a reply
ReplyAttachment == {"uattributes"}

IdleTask == [op |-> "none", pc |-> "idle", uri |-> UriEmpty, handle |-> <<>>,
             reqid |-> None, query |-> 0, io |-> <<>>, attachment |-> {},
             holds |-> {}, result |-> NoResult]

\* A sample or query is named after its slot; origin is the invoking task of
\* a query this instance sent, 0 for what a peer sent; decl is the listener
\* whose callback handles it; delivered lists the listener's invocations.
NoMsg == [kind |-> "none", origin |-> 0, wire |-> GoodWire(None), decl |-> 0,
          pc |-> "none", delivered |-> <<>>, replies |-> <<>>, closed |-> FALSE,
          holds |-> {}]

\* The three mutexes. holds is the set of locks whose guard a call or a
\* callback keeps from one step to the next; a guard that is a temporary of
\* one statement is taken and dropped within the step of that statement.
Locks == {"subscriber_map", "queryable_map", "query_map"}

\* Mutex::lock returns once no one holds the lock
LockFree(l) ==
  /\ \A t \in Tasks : l \notin task[t].holds
  /\ \A m \in Msgs : l \notin msg[m].holds

Init ==
  /\ subscriber_map = EmptyMap
  /\ queryable_map = EmptyMap
  /\ query_map = EmptyMap
  /\ callback_counter = 0
  /\ mesh_subscribers = {}
  /\ mesh_queryables = {}
  /\ task = [t \in Tasks |-> IdleTask]
  /\ msg = [m \in Msgs |-> NoMsg]

\* Calls are numbered in the order they start: task t is the t-th call.
Starts(t) == task[t].pc = "idle" /\ \A u \in 1..(t - 1) : task[u].pc # "idle"

Done(t, r) == task' = [task EXCEPT ![t].pc = "done", ![t].result = r]

\* ------------------------------------------------- register_listener
\* lines 605-615: validate, map the address, allocate the handle
register_listener_begin(t, topic) ==
  /\ Starts(t)
  /\ IF ~UriValidate(topic)
     THEN /\ task' = [task EXCEPT ![t] = [IdleTask EXCEPT !.op = "register_listener",
                        !.pc = "done",
                        !.result = Err("InvalidArgument", "Invalid topic")]]
          /\ UNCHANGED callback_counter
     ELSE /\ task' = [task EXCEPT ![t] = [IdleTask EXCEPT !.op = "register_listener",
                        !.uri = topic, !.pc = "declare",
                        !.handle = HandleString(to_zenoh_key_string(topic), callback_counter)]]
          /\ callback_counter' = FetchAdd(callback_counter)
  /\ UNCHANGED <<subscriber_map, queryable_map, query_map, mesh_subscribers, mesh_queryables, msg>>

\* lines 676-692: declare_subscriber(...).res().await, succeeding or failing
register_listener_declare(t) ==
  /\ task[t].op = "register_listener" /\ task[t].pc = "declare"
  /\ \E declared \in BOOLEAN :
       IF declared
       THEN /\ mesh_subscribers' = mesh_subscribers \cup {t}
            /\ task' = [task EXCEPT ![t].pc = "insert",
                                    ![t].io = Append(@, "declare_subscriber")]
       ELSE /\ UNCHANGED mesh_subscribers
            /\ task' = [task EXCEPT ![t].pc = "done",
                          ![t].io = Append(@, "declare_subscriber"),
                          ![t].result = Err("Internal", "Unable to register callback with Zenoh")]
  /\ UNCHANGED <<subscriber_map, queryable_map, query_map, callback_counter, mesh_queryables, msg>>

\* lines 683-694: insert under the lock (a replaced subscriber is dropped,
\* which undeclares it), return the handle
register_listener_insert(t) ==
  /\ task[t].op = "register_listener" /\ task[t].pc = "insert"
  /\ LockFree("subscriber_map")
  /\ subscriber_map' = MapInsert(subscriber_map, task[t].handle, t)
  /\ mesh_subscribers' = mesh_subscribers \ Stored(subscriber_map, task[t].handle)
  /\ Done(t, Ok(task[t].handle))
  /\ UNCHANGED <<queryable_map, query_map, callback_counter, mesh_queryables, msg>>

\* ------------------------------------------------- unregister_listener
\* lines 701-710: validate, contains_key under the lock
unregister_listener_check(t, topic, listener) ==
  /\ Starts(t)
  /\ UriValidate(topic) => LockFree("subscriber_map")
  /\ task' = [task EXCEPT ![t] = [IdleTask EXCEPT !.op = "unregister_listener",
                !.handle = listener,
                !.pc = IF UriValidate(topic) /\ MapHas(subscriber_map, listener)
                       THEN "remove" ELSE "done",
                !.result = IF ~UriValidate(topic)
                           THEN Err("InvalidArgument", "Invalid topic")
                           ELSE IF ~MapHas(subscriber_map, listener)
                           THEN Err("InvalidArgument", "Listener doesn't exist")
                           ELSE NoResult]]
  /\ UNCHANGED <<subscriber_map, queryable_map, query_map, callback_counter,
                 mesh_subscribers, mesh_queryables, msg>>

\* lines 712-713: remove under a second lock acquisition (the removed
\* subscriber is dropped, which undeclares it), return Ok
unregister_listener_remove(t) ==
  /\ task[t].op = "unregister_listener" /\ task[t].pc = "remove"
  /\ LockFree("subscriber_map")
  /\ subscriber_map' = MapRemove(subscriber_map, task[t].handle)
  /\ mesh_subscribers' = mesh_subscribers \ Stored(subscriber_map, task[t].handle)
  /\ Done(t, Ok(<<>>))
  /\ UNCHANGED <<queryable_map, query_map, callback_counter, mesh_queryables, msg>>

\* ------------------------------------------------- register_rpc_listener
\* lines 428-438: validate, map the address, allocate the handle
register_rpc_listener_begin(t, method) ==
  /\ Starts(t)
  /\ IF ~UriValidate(method)
     THEN /\ task' = [task EXCEPT ![t] = [IdleTask EXCEPT !.op = "register_rpc_listener",
                        !.pc = "done",
                        !.result = Err("InvalidArgument", "Invalid topic")]]
          /\ UNCHANGED callback_counter
     ELSE /\ task' = [task EXCEPT ![t] = [IdleTask EXCEPT !.op = "register_rpc_listener",
                        !.uri = method, !.pc = "declare",
                        !.handle = HandleString(to_zenoh_key_string(method), callback_counter)]]
          /\ callback_counter' = FetchAdd(callback_counter)
  /\ UNCHANGED <<subscriber_map, queryable_map, query_map, mesh_subscribers, mesh_queryables, msg>>

\* a registration that records its handle before it knows the declaration's
\* outcome
register_rpc_listener_declare_keep(t) ==
  /\ task[t].op = "register_rpc_listener" /\ task[t].pc = "declare"
  /\ \E declared \in BOOLEAN :
       IF declared
       THEN /\ mesh_queryables' = mesh_queryables \cup {t}
            /\ task' = [task EXCEPT ![t].pc = "insert",
                                    ![t].io = Append(@, "declare_queryable")]
       ELSE /\ UNCHANGED mesh_queryables
            /\ task' = [task EXCEPT ![t].pc = "done",
                          ![t].io = Append(@, "declare_queryable"),
                          ![t].result = Err("Internal", "Unable to register callback with Zenoh")]
  /\ queryable_map' = MapInsert(queryable_map, task[t].handle, t)
  /\ UNCHANGED <<subscriber_map, query_map, callback_counter, mesh_subscribers, msg>>

\* lines 509-525: declare_queryable(...).res().await, succeeding or failing
register_rpc_listener_declare(t) ==
  /\ task[t].op = "register_rpc_listener" /\ task[t].pc = "declare"
  /\ \E declared \in BOOLEAN :
       IF declared
       THEN /\ mesh_queryables' = mesh_queryables \cup {t}
            /\ task' = [task EXCEPT ![t].pc = "insert",
                                    ![t].io = Append(@, "declare_queryable")]
       ELSE /\ UNCHANGED mesh_queryables
            /\ task' = [task EXCEPT ![t].pc = "done",
                          ![t].io = Append(@, "declare_queryable"),
                          ![t].result = Err("Internal", "Unable to register callback with Zenoh")]
  /\ UNCHANGED <<subscriber_map, queryable_map, query_map, callback_counter, mesh_subscribers, msg>>

\* lines 516-527: insert under the lock (a replaced queryable is dropped,
\* which undeclares it), return the handle
register_rpc_listener_insert(t) ==
  /\ task[t].op = "register_rpc_listener" /\ task[t].pc = "insert"
  /\ LockFree("queryable_map")
  /\ queryable_map' = MapInsert(queryable_map, task[t].handle, t)
  /\ mesh_queryables' = mesh_queryables \ Stored(queryable_map, task[t].handle)
  /\ Done(t, Ok(task[t].handle))
  /\ UNCHANGED <<subscriber_map, query_map, callback_counter, mesh_subscribers, msg>>

\* ------------------------------------------------- unregister_rpc_listener
\* lines 533-550: validate, then remove under one lock acquisition (the
\* removed queryable is dropped, which undeclares it)
unregister_rpc_listener(t, method, listener) ==
  /\ Starts(t)
  /\ UriValidate(method) => LockFree("queryable_map")
  /\ IF ~UriValidate(method)
     THEN /\ task' = [task EXCEPT ![t] = [IdleTask EXCEPT !.op = "unregister_rpc_listener",
                        !.handle = listener, !.pc = "done",
                        !.result = Err("InvalidArgument", "Invalid topic")]]
          /\ UNCHANGED <<queryable_map, mesh_queryables>>
     ELSE /\ task' = [task EXCEPT ![t] = [IdleTask EXCEPT !.op = "unregister_rpc_listener",
                        !.handle = listener, !.pc = "done",
                        !.result = IF MapHas(queryable_map, listener) THEN Ok(<<>>)
                                   ELSE Err("InvalidArgument", "Listener doesn't exist")]]
          /\ queryable_map' = MapRemove(queryable_map, listener)
          /\ mesh_queryables' = mesh_queryables \ Stored(queryable_map, listener)
  /\ UNCHANGED <<subscriber_map, query_map, callback_counter, mesh_subscribers, msg>>

\* ------------------------------------------------- send
\* a dispatch whose default arm publishes
SendCheckDefaultPublish(topic, data, a) ==
  IF ~UriValidate(topic) THEN Err("InvalidArgument", "Invalid topic")
  ELSE IF ~SerializeOk(topic) THEN Err("Internal", "Unable to transform to Zenoh key")
  ELSE IF a.type # "response"
       THEN IF ~IsValue(data) THEN Err("InvalidArgument", "Invalid data") ELSE NoResult
  ELSE IF ~IsValue(data) THEN Err("InvalidArgument", "Invalid data")
  ELSE IF a.reqid = None THEN Err("InvalidArgument", "reqid doesn't exist")
  ELSE IF ~KeyExprValid(to_zenoh_key_string(topic))
       THEN Err("Internal", "Unable to create Zenoh key")
  ELSE IF Lookup(query_map, uuid_to_string(a.reqid)) = 0
       THEN Err("Internal", "query doesn't exist")
  ELSE NoResult

\* lines 573-594, then send_publish 176-214 or send_response 236-281: what
\* send does up to its first awaited mesh operation
SendCheck(topic, data, a) ==
  IF ~UriValidate(topic) THEN Err("InvalidArgument", "Invalid topic")
  ELSE IF ~SerializeOk(topic) THEN Err("Internal", "Unable to transform to Zenoh key")
  ELSE IF a.type = "publish"
       THEN IF ~IsValue(data) THEN Err("InvalidArgument", "Invalid data") ELSE NoResult
  ELSE IF a.type = "response"
       THEN IF ~IsValue(data) THEN Err("InvalidArgument", "Invalid data")
            ELSE IF a.reqid = None THEN Err("InvalidArgument", "reqid doesn't exist")
            ELSE IF ~KeyExprValid(to_zenoh_key_string(topic))
                 THEN Err("Internal", "Unable to create Zenoh key")
            ELSE IF Lookup(query_map, uuid_to_string(a.reqid)) = 0
                 THEN Err("Internal", "query doesn't exist")
            ELSE NoResult
  ELSE Err("InvalidArgument", "Wrong Message type in UAttributes")

\* send_response reaches its lookup in the table (lines 272-281)
SendLooksUp(topic, data, a) ==
  /\ UriValidate(topic) /\ SerializeOk(topic) /\ a.type = "response"
  /\ IsValue(data) /\ a.reqid # None /\ KeyExprValid(to_zenoh_key_string(topic))

send_begin(t, topic, data, a) ==
  /\ Starts(t)
  /\ SendLooksUp(topic, data, a) => LockFree("query_map")
  /\ LET r == SendCheck(topic, data, a) IN
     task' = [task EXCEPT ![t] = [IdleTask EXCEPT !.op = "send",
                !.pc = IF r # NoResult THEN "done"
                       ELSE IF a.type = "publish" THEN "put" ELSE "reply",
                !.reqid = IF r = NoResult /\ a.type = "response" THEN a.reqid ELSE None,
                !.query = IF r = NoResult /\ a.type = "response"
                          THEN Lookup(query_map, uuid_to_string(a.reqid)) ELSE 0,
                !.result = r]]
  /\ UNCHANGED <<subscriber_map, queryable_map, query_map, callback_counter,
                 mesh_subscribers, mesh_queryables, msg>>

\* a put that is issued again when the mesh refused it
send_publish_put_retry(t) ==
  /\ task[t].op = "send" /\ task[t].pc = "put"
  /\ \E sent \in BOOLEAN :
       task' = [task EXCEPT ![t].pc = IF sent \/ Len(task[t].io) >= 1 THEN "done" ELSE "put",
                  ![t].io = Append(@, "put"),
                  ![t].attachment = PutAttachment,
                  ![t].result = IF sent THEN Ok(<<>>)
                                ELSE IF Len(task[t].io) >= 1
                                THEN Err("Internal", "Unable to send with Zenoh")
                                ELSE NoResult]
  /\ UNCHANGED <<subscriber_map, queryable_map, query_map, callback_counter,
                 mesh_subscribers, mesh_queryables, msg>>

\* lines 207-226: the put, succeeding or failing
send_publish_put(t) ==
  /\ task[t].op = "send" /\ task[t].pc = "put"
  /\ \E sent \in BOOLEAN :
       task' = [task EXCEPT ![t].pc = "done", ![t].io = Append(@, "put"),
                  ![t].attachment = PutAttachment,
                  ![t].result = IF sent THEN Ok(<<>>)
                                ELSE Err("Internal", "Unable to send with Zenoh")]
  /\ UNCHANGED <<subscriber_map, queryable_map, query_map, callback_counter,
                 mesh_subscribers, mesh_queryables, msg>>

\* a reply that takes its query out of the table once it was sent
send_response_reply_consume(t) ==
  /\ task[t].op = "send" /\ task[t].pc = "reply"
  /\ \E sent \in BOOLEAN :
       /\ task' = [task EXCEPT ![t].pc = "done", ![t].io = Append(@, "reply"),
                     ![t].attachment = ReplyAttachment,
                     ![t].result = IF sent THEN Ok(<<>>)
                                   ELSE Err("Internal", "Unable to reply with Zenoh")]
       /\ msg' = IF sent
                 THEN [msg EXCEPT ![task[t].query].replies = Append(@, [from |-> t, kind |-> "ok"])]
                 ELSE msg
       /\ query_map' = IF sent THEN MapRemove(query_map, uuid_to_string(task[t].reqid))
                       ELSE query_map
  /\ UNCHANGED <<subscriber_map, queryable_map, callback_counter,
                 mesh_subscribers, mesh_queryables>>

\* lines 285-293: the reply on the query taken from the table, succeeding
\* or failing
send_response_reply(t) ==
  /\ task[t].op = "send" /\ task[t].pc = "reply"
  /\ \E sent \in BOOLEAN :
       /\ task' = [task EXCEPT ![t].pc = "done", ![t].io = Append(@, "reply"),
                     ![t].attachment = ReplyAttachment,
                     ![t].result = IF sent THEN Ok(<<>>)
                                   ELSE Err("Internal", "Unable to reply with Zenoh")]
       /\ msg' = IF sent
                 THEN [msg EXCEPT ![task[t].query].replies = Append(@, [from |-> t, kind |-> "ok"])]
                 ELSE msg
  /\ UNCHANGED <<subscriber_map, queryable_map, query_map, callback_counter,
                 mesh_subscribers, mesh_queryables>>

\* ------------------------------------------------- invoke_method
\* lines 308-338: what invoke_method checks before it builds the query
InvokeCheck(topic, data, a) ==
  IF ~UriValidate(topic) THEN Err("UnexpectedError", "Wrong UUri")
  ELSE IF ~ValidateRequest(a) THEN Err("UnexpectedError", "Wrong UAttributes")
  ELSE IF ~SerializeOk(topic) THEN Err("UnexpectedError", "Unable to transform to Zenoh key")
  ELSE IF ~IsValue(data) THEN Err("InvalidPayload", "Wrong UPayload")
  ELSE NoResult

invoke_method_begin(t, topic, data, a) ==
  /\ Starts(t)
  /\ LET r == InvokeCheck(topic, data, a) IN
     task' = [task EXCEPT ![t] = [IdleTask EXCEPT !.op = "invoke_method",
                !.uri = IF r # NoResult THEN UriEmpty ELSE topic,
                !.reqid = IF r # NoResult THEN None ELSE a.reqid,
                !.pc = IF r # NoResult THEN "done" ELSE "get",
                !.result = r]]
  /\ UNCHANGED <<subscriber_map, queryable_map, query_map, callback_counter,
                 mesh_subscribers, mesh_queryables, msg>>

\* lines 367-380: the get, failing or sending the query (the next of the k
\* slots)
invoke_method_get(t, k) ==
  /\ task[t].op = "invoke_method" /\ task[t].pc = "get"
  /\ \/ /\ task' = [task EXCEPT ![t].pc = "done", ![t].io = Append(@, "get"),
                      ![t].attachment = PutAttachment,
                      ![t].result = Err("UnexpectedError", "Error while sending Zenoh query")]
        /\ UNCHANGED msg
     \/ \E m \in 1..k :
          /\ msg[m].kind = "none"
          /\ \A j \in 1..(m - 1) : msg[j].kind # "none"
          /\ msg' = [msg EXCEPT ![m] = [NoMsg EXCEPT !.kind = "query", !.origin = t,
                       !.wire = GoodWire(task[t].reqid), !.pc = "pending"]]
          /\ task' = [task EXCEPT ![t].pc = "recv", ![t].io = Append(@, "get"),
                        ![t].attachment = PutAttachment,
                        ![t].query = m]
  /\ UNCHANGED <<subscriber_map, queryable_map, query_map, callback_counter,
                 mesh_subscribers, mesh_queryables>>

\* a receive that a closed reply channel does not wake
RecvReadyReplyOnly(q) == q.replies # <<>>

\* recv_async returns once a reply is there or the reply channel is closed
RecvReady(q) == q.replies # <<>> \/ q.closed

\* lines 382-414: the first reply, or the closed channel
RecvResult(q) ==
  IF q.replies = <<>>
  THEN Err("UnexpectedError", "Error while receiving Zenoh reply")
  ELSE IF q.replies[1].kind = "error"
  THEN Err("UnexpectedError", "Error while parsing Zenoh reply")
  ELSE IF q.replies[1].kind = "bad_suffix"
  THEN Err("UnexpectedError", "Error while parsing Zenoh encoding")
  ELSE Ok(<<>>)

invoke_method_recv(t) ==
  /\ task[t].op = "invoke_method" /\ task[t].pc = "recv"
  /\ RecvReady(msg[task[t].query])
  /\ Done(t, RecvResult(msg[task[t].query]))
  /\ UNCHANGED <<subscriber_map, queryable_map, query_map, callback_counter,
                 mesh_subscribers, mesh_queryables, msg>>

\* ------------------------------------------------- the mesh
\* the query's timeout (line 373) closes its reply channel
query_timeout(m) ==
  /\ msg[m].kind = "query" /\ msg[m].origin # 0 /\ ~msg[m].closed
  /\ msg' = [msg EXCEPT ![m].closed = TRUE]
  /\ UNCHANGED <<subscriber_map, queryable_map, query_map, callback_counter,
                 mesh_subscribers, mesh_queryables, task>>

\* a peer's queryable replies to a query of this instance
peer_reply(m, k) ==
  /\ msg[m].kind = "query" /\ msg[m].origin # 0 /\ ~msg[m].closed
  /\ msg[m].decl = 0 /\ msg[m].replies = <<>>
  /\ msg' = [msg EXCEPT ![m].replies = Append(@, [from |-> 0, kind |-> k])]
  /\ UNCHANGED <<subscriber_map, queryable_map, query_map, callback_counter,
                 mesh_subscribers, mesh_queryables, task>>

\* the mesh hands a peer's sample to a declared subscriber (line 618)
subscriber_callback_start(m, d, w) ==
  /\ msg[m].kind = "none" /\ \A k \in 1..(m - 1) : msg[k].kind # "none"
  /\ d \in mesh_subscribers
  /\ msg' = [msg EXCEPT ![m] = [NoMsg EXCEPT !.kind = "sample", !.wire = w,
               !.decl = d, !.pc = "start"]]
  /\ UNCHANGED <<subscriber_map, queryable_map, query_map, callback_counter,
                 mesh_subscribers, mesh_queryables, task>>

\* a callback that gives up its subscription on a message it cannot decode
subscriber_callback_run_teardown(m) ==
  /\ msg[m].kind = "sample" /\ msg[m].pc = "start"
  /\ msg' = [msg EXCEPT ![m].pc = "done",
                        ![m].delivered = Append(@, SampleOutcome(msg[m].wire))]
  /\ IF SampleOutcome(msg[m].wire).ok
     THEN UNCHANGED <<subscriber_map, mesh_subscribers>>
     ELSE /\ subscriber_map' = MapRemove(subscriber_map, task[msg[m].decl].handle)
          /\ mesh_subscribers' = mesh_subscribers \ {msg[m].decl}
  /\ UNCHANGED <<queryable_map, query_map, callback_counter, mesh_queryables, task>>

\* lines 619-674: decode, invoke the listener with the message or the failure
subscriber_callback_run(m) ==
  /\ msg[m].kind = "sample" /\ msg[m].pc = "start"
  /\ msg' = [msg EXCEPT ![m].pc = "done",
                        ![m].delivered = Append(@, SampleOutcome(msg[m].wire))]
  /\ UNCHANGED <<subscriber_map, queryable_map, query_map, callback_counter,
                 mesh_subscribers, mesh_queryables, task>>

\* the mesh hands a peer's query to a declared queryable (line 442)
queryable_callback_start(m, d, w) ==
  /\ msg[m].kind = "none" /\ \A k \in 1..(m - 1) : msg[k].kind # "none"
  /\ d \in mesh_queryables
  /\ msg' = [msg EXCEPT ![m] = [NoMsg EXCEPT !.kind = "query", !.wire = w,
               !.decl = d, !.pc = "start"]]
  /\ UNCHANGED <<subscriber_map, queryable_map, query_map, callback_counter,
                 mesh_subscribers, mesh_queryables, task>>

\* the mesh hands a query of this instance to a declared queryable on its key
queryable_callback_route(m, d) ==
  /\ msg[m].kind = "query" /\ msg[m].pc = "pending" /\ ~msg[m].closed
  /\ d \in mesh_queryables
  /\ to_zenoh_key_string(task[d].uri) = to_zenoh_key_string(task[msg[m].origin].uri)
  /\ msg' = [msg EXCEPT ![m].decl = d, ![m].pc = "start"]
  /\ UNCHANGED <<subscriber_map, queryable_map, query_map, callback_counter,
                 mesh_subscribers, mesh_queryables, task>>

\* a callback whose failure branches lack their return: after the failure
\* it goes on to the listener's invocation with the message
queryable_callback_store_fallthrough(m) ==
  /\ msg[m].kind = "query" /\ msg[m].pc = "start"
  /\ QueryOutcome(msg[m].wire).ok => LockFree("query_map")
  /\ IF QueryOutcome(msg[m].wire).ok
     THEN /\ query_map' = MapInsert(query_map, uuid_to_string(msg[m].wire.reqid), m)
          /\ msg' = [msg EXCEPT ![m].pc = "deliver"]
     ELSE /\ UNCHANGED query_map
          /\ msg' = [msg EXCEPT ![m].pc = "deliver",
                       ![m].delivered = Append(@, QueryOutcome(msg[m].wire))]
  /\ UNCHANGED <<subscriber_map, queryable_map, callback_counter,
                 mesh_subscribers, mesh_queryables, task>>

\* a callback that hands the request to the listener without having stored
\* the query
queryable_callback_store_skipped(m) ==
  /\ msg[m].kind = "query" /\ msg[m].pc = "start"
  /\ IF QueryOutcome(msg[m].wire).ok
     THEN msg' = [msg EXCEPT ![m].pc = "deliver"]
     ELSE msg' = [msg EXCEPT ![m].pc = "done",
                    ![m].delivered = Append(@, QueryOutcome(msg[m].wire))]
  /\ UNCHANGED <<subscriber_map, queryable_map, query_map, callback_counter,
                 mesh_subscribers, mesh_queryables, task>>

\* a callback that keeps the table's guard after the insert, over the
\* invocation of the listener
queryable_callback_store_locked(m) ==
  /\ msg[m].kind = "query" /\ msg[m].pc = "start"
  /\ QueryOutcome(msg[m].wire).ok => LockFree("query_map")
  /\ IF QueryOutcome(msg[m].wire).ok
     THEN /\ query_map' = MapInsert(query_map, uuid_to_string(msg[m].wire.reqid), m)
          /\ msg' = [msg EXCEPT ![m].pc = "deliver", ![m].holds = {"query_map"}]
     ELSE /\ UNCHANGED query_map
          /\ msg' = [msg EXCEPT ![m].pc = "done",
                       ![m].delivered = Append(@, QueryOutcome(msg[m].wire))]
  /\ UNCHANGED <<subscriber_map, queryable_map, callback_counter,
                 mesh_subscribers, mesh_queryables, task>>

\* lines 443-506: decode; a failure goes to the listener and ends the
\* callback; otherwise the query is stored under its reqid
queryable_callback_store(m) ==
  /\ msg[m].kind = "query" /\ msg[m].pc = "start"
  /\ QueryOutcome(msg[m].wire).ok => LockFree("query_map")
  /\ IF QueryOutcome(msg[m].wire).ok
     THEN /\ query_map' = MapInsert(query_map, uuid_to_string(msg[m].wire.reqid), m)
          /\ msg' = [msg EXCEPT ![m].pc = "deliver"]
     ELSE /\ UNCHANGED query_map
          /\ msg' = [msg EXCEPT ![m].pc = "done",
                       ![m].delivered = Append(@, QueryOutcome(msg[m].wire))]
  /\ UNCHANGED <<subscriber_map, queryable_map, callback_counter,
                 mesh_subscribers, mesh_queryables, task>>

\* line 507: listener(Ok(msg))
queryable_callback_deliver(m) ==
  /\ msg[m].kind = "query" /\ msg[m].pc = "deliver"
  /\ msg' = [msg EXCEPT ![m].pc = "done", ![m].delivered = Append(@, Ok(<<>>))]
  /\ UNCHANGED <<subscriber_map, queryable_map, query_map, callback_counter,
                 mesh_subscribers, mesh_queryables, task>>

\* ------------------------------------------------- specifications
\* the listener strings a caller can pass: those handed out so far
Listeners == Handles(callback_counter)

\* no call is in progress
Quiet == \A t \in Tasks : task[t].pc \in {"idle", "done"}

ValidUris == {u \in Uris : UriValidate(u)}
ResponseAttributes == {a \in Attributes : a.type = "response" /\ a.wellformed}
IoAttributes == {a \in Attributes : a.reqid # R2 /\ a.type # "unknown"}
RequestAttributes == {a \in Attributes : a.type = "request" /\ a.wellformed}
\* the requests of one client, which carry its request id
InvokeAttributes == {a \in RequestAttributes : a.reqid = R1}

\* the registration calls: at most n of them, on the addresses uris, one at
\* a time when seq
Registrations(n, seq, uris) ==
  \/ (seq => Quiet) /\ \E t \in 1..n, u \in uris : register_listener_begin(t, u)
  \/ \E t \in 1..n : register_listener_declare(t)
  \/ \E t \in 1..n : register_listener_insert(t)
  \/ (seq => Quiet) /\ \E t \in 1..n, u \in uris, h \in Listeners :
       unregister_listener_check(t, u, h)
  \/ \E t \in 1..n : unregister_listener_remove(t)
  \/ (seq => Quiet) /\ \E t \in 1..n, u \in uris : register_rpc_listener_begin(t, u)
  \/ \E t \in 1..n : register_rpc_listener_declare(t)
  \/ \E t \in 1..n : register_rpc_listener_insert(t)
  \/ (seq => Quiet) /\ \E t \in 1..n, u \in uris, h \in Listeners :
       unregister_rpc_listener(t, u, h)

\* the sends: at most n calls, with the inputs given
Sends(n, seq, uris, datas, attrs) ==
  \/ (seq => Quiet) /\ \E t \in 1..n, u \in uris, d \in datas, a \in attrs :
       send_begin(t, u, d, a)
  \/ \E t \in 1..n : send_publish_put(t)
  \/ \E t \in 1..n : send_response_reply(t)

\* the invocations, and what the mesh does with their queries (at most k
\* samples and queries in all)
Invocations(n, seq, uris, datas, attrs, k) ==
  \/ (seq => Quiet) /\ \E t \in 1..n, u \in uris, d \in datas, a \in attrs :
       invoke_method_begin(t, u, d, a)
  \/ \E t \in 1..n : invoke_method_get(t, k)
  \/ \E t \in 1..n : invoke_method_recv(t)
  \/ \E m \in 1..k : query_timeout(m)
  \/ \E m \in 1..k, r \in {"ok", "error", "bad_suffix"} : peer_reply(m, r)
  \/ \E m \in 1..k, d \in Tasks : queryable_callback_route(m, d)

\* the queryable callbacks on the queries of peers, which carry wires
QueryCallbacks(k, wires) ==
  \/ \E m \in 1..k, d \in Tasks, w \in wires : queryable_callback_start(m, d, w)
  \/ \E m \in 1..k : queryable_callback_store(m)
  \/ \E m \in 1..k : queryable_callback_deliver(m)

\* the subscriber callbacks on the samples of peers, which carry wires
SampleCallbacks(k, wires) ==
  \/ \E m \in 1..k, d \in Tasks, w \in wires : subscriber_callback_start(m, d, w)
  \/ \E m \in 1..k : subscriber_callback_run(m)

\* every call and everything the mesh does, any interleaving
Next ==
  \/ Registrations(NCalls, FALSE, Uris)
  \/ Sends(NCalls, FALSE, Uris, PayloadData, Attributes)
  \/ Invocations(NCalls, FALSE, Uris, PayloadData, Attributes, NMsgs)
  \/ QueryCallbacks(NMsgs, QueryWires)
  \/ SampleCallbacks(NMsgs, SampleWires)

Spec == Init /\ [][Next]_vars

\* registrations and unregistrations only, any interleaving
NextReg == Registrations(NRegCalls, FALSE, Uris)

SpecReg == Init /\ [][NextReg]_vars

\* registrations and unregistrations only, one call at a time
NextSeq == Registrations(NSeqCalls, TRUE, Uris)

SpecSeq == Init /\ [][NextSeq]_vars

\* every call with every input, one call at a time, and the queries that
\* let a response be sent
NextIO ==
  \/ Registrations(NIoCalls, TRUE, Uris)
  \/ Sends(NIoCalls, TRUE, Uris, PayloadData, IoAttributes)
  \/ Invocations(NIoCalls, TRUE, Uris, PayloadData, IoAttributes, NIoMsgs)
  \/ QueryCallbacks(NIoMsgs, {GoodWire(R1)})

SpecIO == Init /\ [][NextIO]_vars

\* RPC listeners, their callbacks and the responses, any interleaving
NextRpc ==
  \/ \E t \in 1..NRpcCalls, u \in ValidUris : register_rpc_listener_begin(t, u)
  \/ \E t \in 1..NRpcCalls : register_rpc_listener_declare(t)
  \/ \E t \in 1..NRpcCalls : register_rpc_listener_insert(t)
  \/ \E t \in 1..NRpcCalls, u \in ValidUris, a \in ResponseAttributes :
       send_begin(t, u, "value", a)
  \/ \E t \in 1..NRpcCalls : send_response_reply(t)
  \/ QueryCallbacks(NRpcMsgs, {GoodWire(r) : r \in Uuids})

SpecRpc == Init /\ [][NextRpc]_vars

\* registrations of both kinds on the addresses of every shape
NextKey ==
  \/ \E t \in 1..NKeyCalls, u \in KeyUris : register_listener_begin(t, u)
  \/ \E t \in 1..NKeyCalls : register_listener_declare(t)
  \/ \E t \in 1..NKeyCalls : register_listener_insert(t)
  \/ \E t \in 1..NKeyCalls, u \in KeyUris : register_rpc_listener_begin(t, u)
  \/ \E t \in 1..NKeyCalls : register_rpc_listener_declare(t)
  \/ \E t \in 1..NKeyCalls : register_rpc_listener_insert(t)

SpecKey == Init /\ [][NextKey]_vars

\* the well-formed publications and responses for request id R1
TableAttributes ==
  {a \in Attributes : a.type \in {"publish", "response"} /\ a.wellformed /\ a.reqid = R1}

\* everything that works on the Correlation Table or could: RPC listeners
\* coming and going, the queries of peers, responses, publications and
\* invocations, one call at a time
NextTable ==
  \/ Quiet /\ \E t \in 1..NTableCalls, u \in ValidUris : register_rpc_listener_begin(t, u)
  \/ \E t \in 1..NTableCalls : register_rpc_listener_declare(t)
  \/ \E t \in 1..NTableCalls : register_rpc_listener_insert(t)
  \/ Quiet /\ \E t \in 1..NTableCalls, u \in ValidUris, h \in Listeners :
       unregister_rpc_listener(t, u, h)
  \/ Sends(NTableCalls, TRUE, ValidUris, {"value"}, TableAttributes)
  \/ Invocations(NTableCalls, TRUE, ValidUris, {"value"}, InvokeAttributes, NTableMsgs)
  \/ QueryCallbacks(NTableMsgs, {GoodWire(R1)})

SpecTable == Init /\ [][NextTable]_vars

\* everything that takes a lock, in any interleaving: registrations and
\* unregistrations of both kinds, responses, the callbacks on queries
NextLock ==
  \/ Registrations(NLockCalls, FALSE, ValidUris)
  \/ \E t \in 1..NLockCalls, u \in ValidUris, a \in ResponseAttributes :
       send_begin(t, u, "value", a)
  \/ \E t \in 1..NLockCalls : send_response_reply(t)
  \/ QueryCallbacks(NLockMsgs, {GoodWire(R1)})

SpecLock == Init /\ [][NextLock]_vars

\* sends with attributes of every message type, on the listeners registered
\* and the queries received, one call at a time
SendAttributes == {a \in Attributes : a.reqid # R2}

NextSend ==
  \/ Registrations(NSendCalls, TRUE, ValidUris)
  \/ Sends(NSendCalls, TRUE, Uris, PayloadData, SendAttributes)
  \/ QueryCallbacks(NSendMsgs, {GoodWire(R1)})

SpecSend == Init /\ [][NextSend]_vars

\* listeners of both kinds and their callbacks on every kind of message
NextListen ==
  \/ \E t \in 1..NListenCalls, u \in ValidUris : register_listener_begin(t, u)
  \/ \E t \in 1..NListenCalls : register_listener_declare(t)
  \/ \E t \in 1..NListenCalls : register_listener_insert(t)
  \/ \E t \in 1..NListenCalls, u \in ValidUris : register_rpc_listener_begin(t, u)
  \/ \E t \in 1..NListenCalls : register_rpc_listener_declare(t)
  \/ \E t \in 1..NListenCalls : register_rpc_listener_insert(t)
  \/ QueryCallbacks(NListenMsgs, QueryWires \ {GoodWire(R2)})
  \/ SampleCallbacks(NListenMsgs, SampleWires)

SpecListen == Init /\ [][NextListen]_vars

\* invocations, the RPC listeners their queries may reach, the replies of peers
NextInvoke ==
  \/ \E t \in 1..NInvokeCalls, u \in ValidUris : register_rpc_listener_begin(t, u)
  \/ \E t \in 1..NInvokeCalls : register_rpc_listener_declare(t)
  \/ \E t \in 1..NInvokeCalls : register_rpc_listener_insert(t)
  \/ Invocations(NInvokeCalls, FALSE, ValidUris, {"value"}, InvokeAttributes, NInvokeMsgs)
  \/ \E m \in 1..NInvokeMsgs : queryable_callback_store(m)
  \/ \E m \in 1..NInvokeMsgs : queryable_callback_deliver(m)

\* an invocation in progress takes its next step, and the timeout set on the
\* query (line 373) fires
InvokeFairness ==
  /\ \A t \in 1..NInvokeCalls :
       WF_vars(invoke_method_get(t, NInvokeMsgs)) /\ WF_vars(invoke_method_recv(t))
  /\ \A m \in 1..NInvokeMsgs : WF_vars(query_timeout(m))

SpecInvoke == Init /\ [][NextInvoke]_vars /\ InvokeFairness

\* ------------------------------------------------- claims
RegisterOps == {"register_listener", "register_rpc_listener"}
UnregisterOps == {"unregister_listener", "unregister_rpc_listener"}
Returned(t) == task[t].pc = "done" /\ task[t].result.ok
Range(m) == {m[k] : k \in DOMAIN m}

\* C1: every handle string a registration returns (register_listener or
\* register_rpc_listener, in any interleaving, on the same address or not)
\* differs from every other handle string returned.
C1_HandleUniqueness ==
  \A t, u \in Tasks :
    (t # u /\ task[t].op \in RegisterOps /\ task[u].op \in RegisterOps
       /\ Returned(t) /\ Returned(u))
    => task[t].result.value # task[u].result.value

\* C1 witness: three registrations on one address, of both kinds; the second
\* and third have returned their handles while the first, which took its
\* counter value before them, is still declaring.
C1_Witness ==
  /\ task[1].op = "register_listener" /\ task[1].pc = "declare"
  /\ task[2].op = "register_rpc_listener" /\ Returned(2)
  /\ task[3].op = "register_listener" /\ Returned(3)
  /\ task[1].uri = task[2].uri /\ task[2].uri = task[3].uri

\* C2: with one call at a time, of the unregister calls made with a handle h
\* that a registration returned (unregister_listener for a subscription
\* handle, unregister_rpc_listener for an RPC handle; calls rejected for their
\* address aside), the first succeeds and every later one fails with
\* InvalidArgument "Listener doesn't exist"; a successful unregister removes
\* exactly the entry h from its registry and leaves the other entries and the
\* other registry in place, a failed one changes no registry.
UnregisterOf(op) ==
  IF op = "register_listener" THEN "unregister_listener" ELSE "unregister_rpc_listener"

UnregisterCalls(r) ==
  {u \in Tasks : /\ u > r /\ task[u].op = UnregisterOf(task[r].op)
                 /\ task[u].handle = task[r].result.value /\ task[u].pc = "done"
                 /\ task[u].result # Err("InvalidArgument", "Invalid topic")}

C2_FirstSucceedsLaterFail ==
  \A r \in Tasks :
    (task[r].op \in RegisterOps /\ Returned(r)) =>
      \A u \in UnregisterCalls(r) :
        IF \A v \in UnregisterCalls(r) : u <= v
        THEN task[u].result = Ok(<<>>)
        ELSE task[u].result = Err("InvalidArgument", "Listener doesn't exist")

Without(m, h) == [x \in DOMAIN m \ {h} |-> m[x]]

C2_RegistryEffect ==
  \A t \in Tasks :
    (task[t].pc # "done" /\ task'[t].pc = "done" /\ task'[t].op \in UnregisterOps) =>
      LET h == task'[t].handle IN
      IF task'[t].result.ok
      THEN IF task'[t].op = "unregister_listener"
           THEN /\ h \in DOMAIN subscriber_map
                /\ subscriber_map' = Without(subscriber_map, h)
                /\ queryable_map' = queryable_map
           ELSE /\ h \in DOMAIN queryable_map
                /\ queryable_map' = Without(queryable_map, h)
                /\ subscriber_map' = subscriber_map
      ELSE subscriber_map' = subscriber_map /\ queryable_map' = queryable_map

C2_UnregisterOnceSequential == [][C2_RegistryEffect /\ C2_FirstSucceedsLaterFail']_vars

\* C2 witness: a registration returned h, the next call unregistered h, the
\* call after it tried again and was refused.
C2_Witness ==
  /\ task[1].op = "register_listener" /\ Returned(1)
  /\ task[2].op = "unregister_listener" /\ task[2].handle = task[1].result.value
  /\ task[2].result = Ok(<<>>) /\ task[2].pc = "done"
  /\ task[3].op = "unregister_listener" /\ task[3].handle = task[1].result.value
  /\ task[3].result = Err("InvalidArgument", "Listener doesn't exist")

\* C3: of the unregister calls made with one handle, at most one returns
\* success, however they interleave.
C3_UnregisterOnceConcurrent ==
  \A t, u \in Tasks :
    (t # u /\ task[t].op \in UnregisterOps /\ task[u].op = task[t].op
       /\ task[t].handle = task[u].handle /\ Returned(t))
    => ~Returned(u)

\* C7 as stated: a queryable is declared on the mesh exactly when its handle
\* is in the Listener Registry.
C7_DeclaredIffRegistered == mesh_queryables = Range(queryable_map)

\* C7 amended: every handle in the Listener Registry names a declared
\* queryable; a declared queryable not in the registry is one whose
\* registration has declared it and not yet inserted its handle; a handle
\* enters the registry only by the insert of its registration and leaves it
\* only by a successful unregister_rpc_listener with that handle.
C7_RegistryInvariant ==
  /\ Range(queryable_map) \subseteq mesh_queryables
  /\ \A d \in mesh_queryables \ Range(queryable_map) :
       task[d].op = "register_rpc_listener" /\ task[d].pc = "insert"

C7_RegistryTransitions ==
  \A h \in DOMAIN queryable_map \cup DOMAIN queryable_map' :
    /\ (h \notin DOMAIN queryable_map) =>
         \E t \in Tasks : /\ task[t].op = "register_rpc_listener" /\ task[t].pc = "insert"
                          /\ task'[t].pc = "done" /\ task'[t].result = Ok(h)
    /\ (h \notin DOMAIN queryable_map') =>
         \E t \in Tasks : /\ task[t].pc = "idle" /\ task'[t].op = "unregister_rpc_listener"
                          /\ task'[t].handle = h /\ task'[t].result.ok

C7_ListenerStateMachine == [][C7_RegistryInvariant' /\ C7_RegistryTransitions]_vars

\* C7 witness: a queryable is declared and its handle is not yet registered.
C7_Witness ==
  \E t \in Tasks : /\ task[t].op = "register_rpc_listener" /\ task[t].pc = "insert"
                   /\ t \in mesh_queryables /\ ~MapHas(queryable_map, task[t].handle)

\* the queries a callback has stored under request id r and that are still
\* the table's entry for it
StoredUnder(r) == {m \in Range(query_map) : msg[m].wire.reqid = r}

\* the replies a send has issued
RepliesOf(t) ==
  UNION {{<<m, i>> : i \in {j \in 1..Len(msg[m].replies) : msg[m].replies[j].from = t}} :
           m \in Msgs}

\* C4: a response-type send with reqid R and a value-form payload, started
\* when a callback has stored a query under R, goes on to reply; the query it
\* replies on is one that was received with reqid R, whatever else the table
\* holds, and it replies on that query only.
C4_SendFindsStored ==
  \A t \in Tasks :
    (task[t].pc = "idle" /\ task'[t].op = "send") =>
      \A u \in ValidUris, a \in ResponseAttributes :
        (a.reqid # None /\ StoredUnder(a.reqid) # {} /\ send_begin(t, u, "value", a)) =>
          task'[t].pc = "reply" /\ task'[t].query \in StoredUnder(a.reqid)

C4_RepliesOnItsQuery ==
  \A t \in Tasks :
    (task[t].op = "send" /\ task[t].query # 0) =>
      /\ msg[task[t].query].kind = "query"
      /\ msg[task[t].query].wire.reqid = task[t].reqid
      /\ \A p \in RepliesOf(t) : p[1] = task[t].query /\ RepliesOf(t) = {p}

C4_CorrelationCorrectness == [][C4_SendFindsStored /\ C4_RepliesOnItsQuery']_vars

\* C4 witness: two queries with different request ids are stored, and a send
\* has replied on one of them.
C4_Witness ==
  /\ Cardinality(DOMAIN query_map) = 2
  /\ \E t \in Tasks : task[t].op = "send" /\ Returned(t) /\ RepliesOf(t) # {}

\* C5: a response-type send (valid address, value-form payload) whose reqid
\* no stored query carries fails with Internal "query doesn't exist", replies
\* on no query, and leaves the Correlation Table and both registries as they
\* were.
C5_Step ==
  \A t \in Tasks :
    (task[t].pc = "idle" /\ task'[t].op = "send") =>
      \A u \in ValidUris, a \in ResponseAttributes :
        (a.reqid # None /\ StoredUnder(a.reqid) = {} /\ send_begin(t, u, "value", a)) =>
          /\ task'[t].pc = "done"
          /\ task'[t].result = Err("Internal", "query doesn't exist")
          /\ task'[t].io = <<>>
          /\ UNCHANGED <<query_map, subscriber_map, queryable_map, msg>>

C5_UnknownCorrelationId == [][C5_Step]_vars

\* C5 witness: a send was refused for its reqid while the table holds an
\* entry for another request.
C5_Witness ==
  /\ DOMAIN query_map # {}
  /\ \E t \in Tasks : /\ task[t].op = "send" /\ task[t].pc = "done"
                      /\ task[t].result = Err("Internal", "query doesn't exist")

\* a call that was refused at once: it has returned a failure, has issued no
\* mesh operation, and nothing of the instance or the mesh has changed
Refused(t) ==
  /\ task'[t].pc = "done" /\ ~task'[t].result.ok /\ task'[t].io = <<>>
  /\ UNCHANGED <<subscriber_map, queryable_map, query_map, callback_counter,
                 mesh_subscribers, mesh_queryables, msg>>

\* C6: send (of any message type) and invoke_method with a payload that is
\* not the value variant return a failure before any put, get or reply, and
\* leave the registries, the Correlation Table and the handle counter unchanged.
C6_Step ==
  \A t \in Tasks :
    (task[t].pc = "idle" /\ task'[t].op \in {"send", "invoke_method"}) =>
      \/ Refused(t)
      \/ \A u \in Uris, d \in PayloadData \ {"value"}, a \in IoAttributes :
           ~(send_begin(t, u, d, a) \/ invoke_method_begin(t, u, d, a))

C6_InvalidPayloadRejected == [][C6_Step]_vars

\* C6 witness: a send refused for its payload after an invocation refused
\* for its payload.
C6_Witness ==
  /\ task[1].op = "invoke_method" /\ task[1].pc = "done"
  /\ task[1].result = Err("InvalidPayload", "Wrong UPayload")
  /\ task[2].op = "send" /\ task[2].pc = "done"
  /\ task[2].result = Err("InvalidArgument", "Invalid data")

\* C9: every call with a malformed address, and every send or invoke_method
\* with malformed attributes, is refused before any mesh operation and before
\* any change of local state.
C9_Step ==
  /\ \A t \in Tasks, u \in Uris, d \in PayloadData, a \in IoAttributes :
       ((~UriValidate(u) \/ ~a.wellformed)
          /\ (send_begin(t, u, d, a) \/ invoke_method_begin(t, u, d, a))) => Refused(t)
  /\ \A t \in Tasks, u \in Uris, h \in Listeners :
       (~UriValidate(u)
          /\ (\/ register_listener_begin(t, u) \/ register_rpc_listener_begin(t, u)
              \/ unregister_listener_check(t, u, h) \/ unregister_rpc_listener(t, u, h)))
       => Refused(t)

C9_ValidationBeforeIO == [][C9_Step]_vars

\* the invocations whose query got no reply
Unanswered(t) ==
  /\ task[t].op = "invoke_method" /\ task[t].pc = "done"
  /\ task[t].query # 0 /\ msg[task[t].query].replies = <<>>

\* C8: every invoke_method call eventually returns; a call whose query got
\* no reply (no responder answers and the reply channel closes at the
\* timeout) returns the UnexpectedError of the receive; and a call that has
\* returned keeps its one result.
C8_InvokeTerminates ==
  /\ \A t \in Tasks : (task[t].op = "invoke_method") ~> (task[t].pc = "done")
  /\ [](\A t \in Tasks :
          Unanswered(t) =>
            task[t].result = Err("UnexpectedError", "Error while receiving Zenoh reply"))
  /\ [][\A t \in Tasks : task[t].pc = "done" => task'[t] = task[t]]_vars

\* C8 witness: an invocation on a method no responder is registered for has
\* returned the failure of the receive after its query's reply channel closed.
C8_Witness ==
  \E t \in Tasks :
    /\ Unanswered(t) /\ msg[task[t].query].closed /\ mesh_queryables = {}
    /\ task[t].result = Err("UnexpectedError", "Error while receiving Zenoh reply")

\* the incoming messages the callbacks decode in full
WellFormed(m) ==
  LET w == msg[m].wire IN
  /\ w.attachment /\ w.uattributes = "ok"
  /\ \/ msg[m].kind = "sample" /\ w.src_uuri = "ok" /\ w.value = "ok"
     \/ msg[m].kind = "query" /\ w.value \in {"ok", "none"} /\ w.reqid # None

\* the registry a registration's handle goes to
RegistryOf(d) ==
  IF task[d].op = "register_listener" THEN subscriber_map ELSE queryable_map

\* the messages the callback of listener d has reported as failures
FailedOn(d) ==
  {m \in Msgs : msg[m].decl = d /\ msg[m].delivered # <<>> /\ ~msg[m].delivered[1].ok}

\* a step in which a callback reports a failure to its listener
ReportsFailure(m) ==
  /\ Len(msg'[m].delivered) = Len(msg[m].delivered) + 1
  /\ ~msg'[m].delivered[Len(msg'[m].delivered)].ok

C10_Step ==
  \A m \in Msgs :
    ReportsFailure(m) =>
      UNCHANGED <<subscriber_map, queryable_map, mesh_subscribers, mesh_queryables>>

C10_Delivery ==
  \A d \in Tasks :
    FailedOn(d) # {} =>
      /\ d \in mesh_subscribers \cup mesh_queryables
      /\ Returned(d) => MapHas(RegistryOf(d), task[d].handle)
      /\ \A m \in Msgs :
           (msg[m].decl = d /\ msg[m].pc = "done" /\ WellFormed(m))
             => msg[m].delivered = <<Ok(<<>>)>>

\* C10: a callback's report of a failure for one incoming message changes no
\* registry and no declaration; after it the listener is still declared, its
\* handle is still in its registry once the registration has returned, and
\* every well-formed message its callback has handled went to the listener
\* as a success, once.
C10_FailureKeepsListener == [][C10_Step /\ C10_Delivery']_vars

\* C10 witness: a listener's callback reported a failure for the first
\* message and a success for the second, the handle being in its registry.
C10_Witness ==
  \E d \in Tasks :
    /\ msg[1].decl = d /\ msg[2].decl = d /\ 1 \in FailedOn(d)
    /\ msg[2].pc = "done" /\ msg[2].delivered = <<Ok(<<>>)>>
    /\ Returned(d) /\ MapHas(RegistryOf(d), task[d].handle)

\* the key a handle string was made from: what precedes its last '_'
KeyOf(h) ==
  LET last == CHOOSE i \in 1..Len(h) : h[i] = "_" /\ \A j \in (i + 1)..Len(h) : h[j] # "_"
  IN  SubSeq(h, 1, last - 1)

\* the registrations whose address has been mapped to a key
Mapped == {t \in Tasks : task[t].op \in RegisterOps /\ task[t].handle # <<>>}

StartsWith(s, p) == Len(s) >= Len(p) /\ SubSeq(s, 1, Len(p)) = p

DoorEscaped ==
  <<"b","o","d","y",".","a","c","c","e","s","s","/","1","/","d","o","o","r",".",
    "f","r","o","n","t","_","l","e","f","t","\\","3","D","o","o","r">>

C13_KeyAsUnitTest ==
  \A t \in Mapped :
    task[t].uri.authority.kind = "none" =>
      /\ KeyOf(task[t].handle) = Escape(StripLeadingSlash(Serialize(task[t].uri)))
      /\ task[t].uri = UriDoor => KeyOf(task[t].handle) = DoorEscaped

\* the queries the retention rule keeps: attachment, decodable "uattributes"
\* entry, a value (if any) with a parsable encoding suffix, a reqid
Retainable(w) ==
  /\ w.attachment /\ w.uattributes = "ok"
  /\ w.value \in {"ok", "none"} /\ w.reqid # None

\* the callback's decoding step on query m
Decodes(m) == msg[m].kind = "query" /\ msg[m].pc = "start" /\ msg'[m].pc # "start"

C14_Step ==
  \A m \in Msgs :
    Decodes(m) =>
      IF Retainable(msg[m].wire)
      THEN /\ MapHas(query_map', uuid_to_string(msg[m].wire.reqid))
           /\ query_map'[uuid_to_string(msg[m].wire.reqid)] = m
           /\ \A k \in DOMAIN query_map :
                k # uuid_to_string(msg[m].wire.reqid) => query_map'[k] = query_map[k]
      ELSE /\ query_map' = query_map
           /\ msg'[m].pc = "done" /\ Len(msg'[m].delivered) = 1 /\ ~msg'[m].delivered[1].ok

C14_Kept ==
  \A m \in Msgs :
    /\ m \in Range(query_map) => Retainable(msg[m].wire)
    /\ (msg[m].kind = "query" /\ msg[m].pc = "done" /\ ~Retainable(msg[m].wire)) =>
         \A i \in 1..Len(msg[m].delivered) : ~msg[m].delivered[i].ok

\* C14: the callback inserts a query into the Correlation Table exactly when
\* the query has an attachment with a decodable "uattributes" entry, a value
\* (if any) with a parsable encoding suffix, and a reqid; otherwise the table
\* is unchanged, the listener gets one failure, and never a success for it.
C14_QueryRetention == [][C14_Step /\ C14_Kept']_vars

\* C14 witness: the first query was stored and delivered, the second was
\* refused for its encoding suffix and is not in the table.
C14_Witness ==
  /\ msg[1].kind = "query" /\ msg[1].pc = "done" /\ 1 \in Range(query_map)
  /\ msg[2].kind = "query" /\ msg[2].pc = "done" /\ msg[2].wire.value = "bad_suffix"
  /\ msg[2].delivered = <<Err("Internal", "Unable to get payload encoding")>>
  /\ 2 \notin Range(query_map)

\* the request ids a response has been sent for
Answered(r) ==
  \E o \in Tasks : /\ task[o].op = "send" /\ Returned(o)
                   /\ task[o].reqid = r /\ task[o].io = <<"reply">>

C15_SecondResponse ==
  \A t \in Tasks :
    (task[t].pc = "idle" /\ task'[t].op = "send") =>
      \A u \in ValidUris, a \in ResponseAttributes :
        (a.reqid # None /\ Answered(a.reqid) /\ send_begin(t, u, "value", a)) =>
          /\ task'[t].pc = "reply"
          /\ task'[t].query = query_map[uuid_to_string(a.reqid)]

\* C15: no step removes a key of the Correlation Table; and a response-type
\* send with a reqid for which a response was already sent finds the query
\* again and goes on to reply.
C15_EntriesNeverRemoved ==
  [][DOMAIN query_map \subseteq DOMAIN query_map' /\ C15_SecondResponse]_vars

\* C15 witness: two responses for one request id have both been replied on
\* its query.
C15_Witness ==
  \E t \in Tasks, o \in Tasks :
    /\ t < o /\ task[t].op = "send" /\ task[o].op = "send"
    /\ Returned(t) /\ Returned(o) /\ task[t].reqid = task[o].reqid
    /\ RepliesOf(t) # {} /\ RepliesOf(o) # {}

\* the registrations the mesh refused to declare
DeclarationFailed(t) ==
  /\ task[t].op \in RegisterOps /\ task[t].pc = "done"
  /\ task[t].result = Err("Internal", "Unable to register callback with Zenoh")

Started == {t \in Tasks : task[t].pc # "idle"}

\* C16 as stated: after registrations that all failed at their declaration
\* the instance is in the state it was in before them.
C16_DeclarationFailureNoState ==
  (\A t \in Started : DeclarationFailed(t)) =>
    /\ subscriber_map = EmptyMap /\ queryable_map = EmptyMap /\ query_map = EmptyMap
    /\ mesh_subscribers = {} /\ mesh_queryables = {}
    /\ callback_counter = 0

C16_Step ==
  \A t \in Tasks :
    (task[t].op \in RegisterOps /\ task[t].pc = "declare" /\ task'[t].pc = "done") =>
      /\ task'[t].result = Err("Internal", "Unable to register callback with Zenoh")
      /\ UNCHANGED <<subscriber_map, queryable_map, query_map, callback_counter,
                     mesh_subscribers, mesh_queryables, msg>>

C16_After ==
  /\ \A t \in Tasks :
       DeclarationFailed(t) =>
         /\ ~MapHas(subscriber_map, task[t].handle) /\ ~MapHas(queryable_map, task[t].handle)
         /\ t \notin mesh_subscribers \cup mesh_queryables
  /\ (\A t \in Started : DeclarationFailed(t)) =>
       /\ subscriber_map = EmptyMap /\ queryable_map = EmptyMap /\ query_map = EmptyMap
       /\ mesh_subscribers = {} /\ mesh_queryables = {}
       /\ callback_counter = Cardinality(Started)

\* C16 (amended): a refused declaration makes the registration return the
\* Internal error in a step that changes nothing of the instance; its handle
\* is in neither registry and nothing is declared for it; of the whole call
\* only the handle counter's advance by one remains.
C16_DeclarationFailureKeepsCounter == [][C16_Step /\ C16_After']_vars

\* C16 witness: a registration of each kind was refused by the mesh while a
\* third one is registered.
C16_Witness ==
  \E t \in Tasks, o \in Tasks, r \in Tasks :
    /\ DeclarationFailed(t) /\ task[t].op = "register_listener"
    /\ DeclarationFailed(o) /\ task[o].op = "register_rpc_listener"
    /\ task[r].op \in RegisterOps /\ Returned(r) /\ callback_counter = 3

PublishAttributes == {a \in IoAttributes : a.type = "publish"}

C17_Begin ==
  \A t \in Tasks :
    (task[t].pc = "idle" /\ task'[t].op = "send") =>
      \A u \in ValidUris, a \in PublishAttributes :
        send_begin(t, u, "value", a) =>
          /\ task'[t].pc = "put" /\ task'[t].io = <<>>
          /\ UNCHANGED <<subscriber_map, queryable_map, query_map, callback_counter,
                         mesh_subscribers, mesh_queryables, msg>>

C17_Put ==
  \A t \in Tasks :
    (task[t].op = "send" /\ task[t].pc = "put" /\ task'[t] # task[t]) =>
      /\ task'[t].pc = "done" /\ task'[t].io = <<"put">>
      /\ task'[t].attachment = {"uattributes", "src_uuri"}
      /\ task'[t].result \in {Ok(<<>>), Err("Internal", "Unable to send with Zenoh")}
      /\ UNCHANGED <<subscriber_map, queryable_map, query_map, callback_counter,
                     mesh_subscribers, mesh_queryables, msg>>

\* C17: a send with a valid address, publish-type attributes and a
\* value-form payload goes to its put without changing anything, issues that
\* one put with an attachment of "uattributes" and "src_uuri", and returns
\* success or the Internal error of a refused put, both registries, the
\* Correlation Table and the handle counter being left as they were.
C17_PublishNoLocalEffect == [][C17_Begin /\ C17_Put]_vars

\* C17 witness: with a listener registered, a publication's put was refused
\* and the call returned the Internal error after that one put.
C17_Witness ==
  \E t \in Tasks :
    /\ task[t].op = "send" /\ task[t].pc = "done" /\ task[t].io = <<"put">>
    /\ task[t].result = Err("Internal", "Unable to send with Zenoh")
    /\ subscriber_map # EmptyMap /\ callback_counter = 1

\* the registrations whose handle an unregistration has returned success for
Unregistered(d) ==
  /\ task[d].op \in RegisterOps
  /\ \E t \in Tasks : /\ task[t].op \in UnregisterOps /\ Returned(t)
                      /\ task[t].handle = task[d].handle

\* a step in which the listener of message m's callback is invoked
Invokes(m) == Len(msg'[m].delivered) > Len(msg[m].delivered)

\* C18: once unregister_listener or unregister_rpc_listener has returned
\* success for a handle, the listener registered under it is not invoked
\* again, not even by a callback that was in flight.
C18_NoInvocationAfterUnregister ==
  [][\A m \in Msgs : Invokes(m) => ~Unregistered(msg[m].decl)]_vars

\* the next step of a call that has started, of a callback that has started
TaskStep(t) ==
  \/ register_listener_declare(t) \/ register_listener_insert(t)
  \/ unregister_listener_remove(t)
  \/ register_rpc_listener_declare(t) \/ register_rpc_listener_insert(t)
  \/ send_publish_put(t) \/ send_response_reply(t)

CallbackStep(m) ==
  \/ subscriber_callback_run(m)
  \/ queryable_callback_store(m) \/ queryable_callback_deliver(m)

\* a call awaits a mesh operation; a callback is about to invoke its listener
Awaiting(t) == task[t].pc \in {"declare", "put", "reply", "get", "recv"}
AtListener(m) == msg[m].pc \in {"start", "deliver"}

\* C19: no lock is held by a call that awaits a put, get, reply or
\* declaration, nor by a callback that is invoking its listener; no lock is
\* held by anyone else at those moments either, so every call that has
\* started and every callback that has started can take its next step, and a
\* response, registration or unregistration can start: nobody is blocked on
\* a lock.
C19_LockDiscipline ==
  /\ \A t \in Tasks : Awaiting(t) => task[t].holds = {}
  /\ \A m \in Msgs : AtListener(m) => msg[m].holds = {}
  /\ \A t \in Tasks : task[t].pc \notin {"idle", "done"} => ENABLED TaskStep(t)
  /\ \A m \in Msgs : AtListener(m) => ENABLED CallbackStep(m)
  /\ (\E t \in Tasks, m \in Msgs : Awaiting(t) \/ AtListener(m)) =>
       \A l \in Locks : LockFree(l)

\* C19 witness: a callback has stored its query and is about to invoke the
\* listener while a response is at its reply.
C19_Witness ==
  /\ \E m \in Msgs : msg[m].kind = "query" /\ msg[m].pc = "deliver"
  /\ \E t \in Tasks : task[t].op = "send" /\ task[t].pc = "reply"

\* the requests whose successful delivery to the listener has begun: the
\* callback is at listener(Ok(msg)) or past it
Delivering(m) ==
  /\ msg[m].kind = "query" /\ msg[m].decl # 0
  /\ \/ msg[m].pc = "deliver"
     \/ \E i \in 1..Len(msg[m].delivered) : msg[m].delivered[i].ok

C20_Stored ==
  \A m \in Msgs : Delivering(m) => MapHas(query_map, uuid_to_string(msg[m].wire.reqid))

C20_SendFinds ==
  \A t \in Tasks :
    (task[t].pc = "idle" /\ task'[t].op = "send") =>
      \A u \in ValidUris, a \in ResponseAttributes :
        (/\ a.reqid # None
         /\ \E m \in Msgs : Delivering(m) /\ msg[m].wire.reqid = a.reqid
         /\ send_begin(t, u, "value", a)) =>
          /\ task'[t].pc = "reply"
          /\ task'[t].result # Err("Internal", "query doesn't exist")
          /\ msg[task'[t].query].wire.reqid = a.reqid

\* C20: from the moment the callback is about to invoke the listener with a
\* request, the table has an entry under the request's reqid, and every
\* response-type send carrying that reqid, started then or later by anyone,
\* finds a query received with that reqid and goes on to reply.
C20_StoreBeforeDeliver == [][C20_Stored' /\ C20_SendFinds]_vars

\* C20 witness: a response has found the query while the callback that
\* stored it is still at its listener invocation.
C20_Witness ==
  \E t \in Tasks :
    /\ task[t].op = "send" /\ task[t].pc \in {"reply", "done"} /\ task[t].query # 0
    /\ msg[task[t].query].pc = "deliver"

\* the samples and queries a callback of this instance handles
Handled == {m \in Msgs : msg[m].kind \in {"sample", "query"} /\ msg[m].decl # 0}

\* C21: a callback that has returned has invoked its listener exactly once,
\* with the message or with a failure; a callback still running has not
\* invoked it yet, so no path invokes it twice or not at all.
C21_ExactlyOneDelivery ==
  \A m \in Handled :
    /\ msg[m].pc \in {"start", "deliver"} => msg[m].delivered = <<>>
    /\ msg[m].pc = "done" => Len(msg[m].delivered) = 1
    /\ msg[m].pc \in {"start", "deliver", "done"}

\* C21 witness: two callbacks have returned, the first after a success and
\* the second after a failure.
C21_Witness ==
  /\ {1, 2} \subseteq Handled /\ msg[1].pc = "done" /\ msg[2].pc = "done"
  /\ msg[1].delivered[1].ok /\ ~msg[2].delivered[1].ok

WrongType == Err("InvalidArgument", "Wrong Message type in UAttributes")

OtherAttributes == {a \in SendAttributes : a.type \notin {"publish", "response"}}

C22_Step ==
  \A t \in Tasks :
    (task[t].pc = "idle" /\ task'[t].op = "send") =>
      /\ task'[t].pc = "put" =>
           \A u \in Uris, d \in PayloadData, a \in SendAttributes :
             send_begin(t, u, d, a) => a.type = "publish"
      /\ task'[t].pc = "reply" =>
           \A u \in Uris, d \in PayloadData, a \in SendAttributes :
             send_begin(t, u, d, a) => a.type = "response"
      /\ \/ Refused(t) /\ task'[t].result = WrongType
         \/ \A u \in Uris, d \in PayloadData, a \in OtherAttributes :
              send_begin(t, u, d, a) =>
                Refused(t) /\ (UriValidate(u) => task'[t].result = WrongType)

\* C22: a send goes to its put only with publish-type attributes and to its
\* reply only with response-type attributes; with any other type (request,
\* unspecified, an unknown integer) it issues no mesh operation and changes
\* nothing, and on a valid address it returns InvalidArgument "Wrong Message
\* type in UAttributes".
C22_MessageTypeDispatch == [][C22_Step]_vars

\* C22 witness: with a listener registered, a send was refused for its
\* message type.
C22_Witness ==
  \E t \in Tasks :
    /\ task[t].op = "send" /\ task[t].pc = "done" /\ task[t].result = WrongType
    /\ task[t].io = <<>> /\ callback_counter = 1

\* the queries a callback has stored (it is past its insert)
PastStore(m) ==
  /\ msg[m].kind = "query" /\ msg[m].decl # 0
  /\ msg[m].pc \in {"deliver", "done"} /\ QueryOutcome(msg[m].wire).ok

TableKey(m) == uuid_to_string(msg[m].wire.reqid)

\* the step of m's callback that stores its query
Stores(m) == msg[m].kind = "query" /\ msg[m].pc = "start" /\ msg'[m].pc = "deliver"

\* the queries stored under a reqid and since replaced by a later one
Replaced(r) ==
  {m \in Msgs : PastStore(m) /\ msg[m].wire.reqid = r
                /\ Lookup(query_map, uuid_to_string(r)) # m}

\* the entry of a reqid is the query stored last: a store puts its own query
\* under its key, and nothing else changes an entry
C23_LastStored ==
  /\ \A m \in Msgs : Stores(m) => Lookup(query_map', TableKey(m)) = m
  /\ \A k \in DOMAIN query_map' :
       query_map'[k] # Lookup(query_map, k) => \E m \in Msgs : Stores(m) /\ TableKey(m) = k

\* a response started now takes the entry of its reqid, none of the
\* queries it replaced
C23_SendTakesLast ==
  \A t \in Tasks :
    (task[t].pc = "idle" /\ task'[t].op = "send" /\ task'[t].pc = "reply") =>
      /\ task'[t].query = Lookup(query_map, uuid_to_string(task'[t].reqid))
      /\ task'[t].query \notin Replaced(task'[t].reqid)

\* a response replies on the query it took and on no other
C23_RepliesOnTaken ==
  \A t \in Tasks : \A p \in RepliesOf(t) : task[t].op = "send" /\ p[1] = task[t].query

\* C23: when two queries with the same reqid R were received and stored
\* before a response for R is started, the table has one entry for R, the
\* query stored last; a response started afterwards takes that query and
\* replies on it only, so the query stored earlier gets no reply from it.
C23_RequestIdReuse == [][C23_LastStored /\ C23_SendTakesLast /\ C23_RepliesOnTaken']_vars

\* C23 witness: two queries with the same reqid were stored, the second
\* received first; the response started afterwards has replied on the one
\* stored last, and the one stored earlier has no reply.
C23_Witness ==
  /\ PastStore(1) /\ PastStore(2) /\ msg[1].wire.reqid = msg[2].wire.reqid
  /\ Lookup(query_map, TableKey(1)) = 1 /\ Replaced(msg[1].wire.reqid) = {2}
  /\ msg[2].replies = <<>>
  /\ \E t \in Tasks : task[t].op = "send" /\ Returned(t) /\ RepliesOf(t) = {<<1, 1>>}

\* C24: the key of an address that does not take the wildcard override,
\* with or without an authority, has no two consecutive '/' anywhere, the
\* junction with the "up/" prefix included.
C24_NoEmptySegment ==
  \A t \in Mapped :
    ~IsStarRemote(task[t].uri) =>
      LET k == KeyOf(task[t].handle)
      IN  \A i \in 1..(Len(k) - 1) : ~(k[i] = "/" /\ k[i + 1] = "/")

====
